---- MODULE Spec2Model ----
(***************************************************************************)
(* Pagination core of the TipTap pagination plugin:                        *)
(*   hooks/use-editor-height.ts       calculatePageBreaks, useEditorHeight *)
(*   hooks/use-page-break-manager.ts  usePageBreakManager, recalculate     *)
(*   components/tiptap-extension/page-break-extension.ts  PageBreak node   *)
(*                                                                         *)
(* The document is a flat sequence of block nodes under the doc node:      *)
(* paragraphs (a text block holding len characters, node size len + 2)     *)
(* and pageBreak markers (atom leaf, node size 1).  Positions are the      *)
(* editor's integer positions: position 0 is the start of the doc content, *)
(* a node's position is the sum of the sizes of the nodes before it.       *)
(*                                                                         *)
(* React is modelled at the granularity of a commit: a setMetrics call,    *)
(* the re-render it causes and the effect cleanup/run of that render are   *)
(* part of the handler that called setMetrics.                             *)
(***************************************************************************)
EXTENDS Integers, Sequences, FiniteSets, TLC

\* ------------------------------------------------------------------ bounds
MaxNodes == 3
MaxUserBreaks == 1
MaxDocLen == 4
MaxEdits == 2
MaxEditors == 2
MaxPlanNodes == 3
MaxPlanHeight == 4
MaxPlanPage == 3
MaxRemoveLen == 4
MaxMeasureLen == 2
MaxMeasureHeight == 2
MaxPassLen == 3
MaxPasses == 2
MaxQuietLen == 32
MaxLoopNodes == 2
MaxLoopHeight == 3
MaxLoopTop == 2
MaxLoopPage == 2

\* --------------------------------------------------------- program constants
PAGE_HEIGHT == 1123
debounceMs == 500
InitialMeasureMs == 100

\* ------------------------------------------------- rendering (environment)
\* Text lengths a paragraph can be given by the user.
Lens == {0, 3, 3996}
\* Layout: a paragraph is rendered as lines of CharsPerLine characters, each
\* LineHeight pixels high; an empty paragraph still takes one line.
CharsPerLine == 1100
LineHeight == 1000
\* Amounts of time that can pass between two events.
TickSteps == {100, 400}

Min(a, b) == IF a < b THEN a ELSE b
Max(a, b) == IF a > b THEN a ELSE b

\* ---------------------------------------------------------------- document
Para(n) == [type |-> "paragraph", len |-> n, pageNumber |-> 0]
Brk(k) == [type |-> "pageBreak", len |-> 0, pageNumber |-> k]

IsBreak(node) == node.type = "pageBreak"

nodeSize(node) == IF IsBreak(node) THEN 1 ELSE node.len + 2

RECURSIVE SumSizes(_, _)
SumSizes(d, n) == IF n = 0 THEN 0 ELSE SumSizes(d, n - 1) + nodeSize(d[n])

\* Position directly before the i-th node (1-based index).
NodePos(d, i) == SumSizes(d, i - 1)

DocSize(d) == SumSizes(d, Len(d))

\* offsetHeight of the element rendered for a node.
offsetHeight(node) ==
    LineHeight * Max(1, (node.len + CharsPerLine - 1) \div CharsPerLine)

Content(d) == SelectSeq(d, LAMBDA n : ~IsBreak(n))
Markers(d) == SelectSeq(d, LAMBDA n : IsBreak(n))
NumMarkers(d) == Len(Markers(d))

\* Index of the node that contains position pos strictly inside it, or 0 when
\* pos is a boundary between two top-level nodes (or the doc start / end).
InsideIndex(d, pos) ==
    IF \E i \in 1..Len(d) : NodePos(d, i) < pos /\ pos < NodePos(d, i) + nodeSize(d[i])
    THEN CHOOSE i \in 1..Len(d) : NodePos(d, i) < pos /\ pos < NodePos(d, i) + nodeSize(d[i])
    ELSE 0

\* Number of top-level nodes that end at or before the boundary position pos.
BoundaryIndex(d, pos) ==
    Cardinality({i \in 1..Len(d) : NodePos(d, i) + nodeSize(d[i]) <= pos})

InsertAt(d, k, new) == SubSeq(d, 1, k) \o new \o SubSeq(d, k + 1, Len(d))
ReplaceAt(d, i, new) == SubSeq(d, 1, i - 1) \o new \o SubSeq(d, i + 1, Len(d))

\* tr.delete(from, to) for a range of one position (to = from + 1).  A range
\* that covers a leaf node removes it; a range inside a paragraph's text removes
\* one character; a range that covers the opening token of an empty paragraph
\* removes the paragraph; a range that covers only an opening or closing token
\* of a paragraph with text is refitted to the same document.
TrDelete(d, from, to) ==
    LET i == InsideIndex(d, from)
        j == InsideIndex(d, to)
        k == BoundaryIndex(d, from) + 1
    IN  IF from < 0 \/ to > DocSize(d) THEN d
        ELSE IF i = 0 /\ j = 0 THEN ReplaceAt(d, k, << >>)
        ELSE IF i # 0 /\ i = j THEN ReplaceAt(d, i, << Para(d[i].len - (to - from)) >>)
        ELSE IF i = 0 /\ d[j].len = 0 THEN ReplaceAt(d, j, << >>)
        ELSE d

\* insertContentAt(pos, {type: 'pageBreak', attrs: {pageNumber}}).  ok is FALSE
\* when the position is outside the document (resolving it throws RangeError).
\* At a boundary between top-level nodes the marker is inserted there.  Inside
\* an empty paragraph the marker replaces the paragraph.  Inside a paragraph
\* with text the paragraph is closed before the marker and the text after the
\* position, if any, is re-opened in a new paragraph after it.
insertContentAt(d, pos, pageNumber) ==
    LET i == InsideIndex(d, pos)
        o == pos - NodePos(d, i) - 1
    IN  IF pos < 0 \/ pos > DocSize(d) THEN [ok |-> FALSE, doc |-> d]
        ELSE IF i = 0
        THEN [ok |-> TRUE,
              doc |-> InsertAt(d, BoundaryIndex(d, pos), << Brk(pageNumber) >>)]
        ELSE IF d[i].len = 0
        THEN [ok |-> TRUE, doc |-> ReplaceAt(d, i, << Brk(pageNumber) >>)]
        ELSE IF o = d[i].len
        THEN [ok |-> TRUE, doc |-> InsertAt(d, i, << Brk(pageNumber) >>)]
        ELSE [ok |-> TRUE,
              doc |-> ReplaceAt(d, i, << Para(o), Brk(pageNumber), Para(d[i].len - o) >>)]

\* ------------------------------------------------ page-break-extension.ts
\* The forEach over the collected markers: d2 is the document one tr.delete
\* left, computed before the next one is applied.
RECURSIVE DeleteAll(_, _)
DeleteAll(d, pageBreaks) ==
    IF pageBreaks = << >> THEN d
    ELSE CHOOSE out \in
           {DeleteAll(d2, Tail(pageBreaks)) :
              d2 \in {TrDelete(d, Head(pageBreaks).pos,
                               Head(pageBreaks).pos + Head(pageBreaks).size)}} : TRUE

\* The list left in the order of the scan.
KeepOrder(s) == s

Reverse(s) == [i \in 1..Len(s) |-> s[Len(s) + 1 - i]]

FindPageBreaks(d) ==
    LET idx == SelectSeq([i \in 1..Len(d) |-> i], LAMBDA i : IsBreak(d[i]))
    IN  [n \in 1..Len(idx) |-> [pos |-> NodePos(d, idx[n]), size |-> nodeSize(d[idx[n]])]]

removeAllPageBreaksForward(d) == DeleteAll(d, FindPageBreaks(d))

removeAllPageBreaks(d) == DeleteAll(d, Reverse(FindPageBreaks(d)))

\* ----------------------------------------------------- use-editor-height.ts
\* The descendants callback without the test on the node type: markers are
\* recorded too.
RECURSIVE MeasureWithBreaks(_, _, _)
MeasureWithBreaks(d, i, cumulativeHeight) ==
    IF i > Len(d) THEN << >>
    ELSE << [type |-> d[i].type,
             height |-> IF IsBreak(d[i]) THEN 0 ELSE offsetHeight(d[i]),
             top |-> cumulativeHeight, pos |-> NodePos(d, i)] >>
         \o MeasureWithBreaks(d, i + 1,
                cumulativeHeight + (IF IsBreak(d[i]) THEN 0 ELSE offsetHeight(d[i])))

RECURSIVE Measure(_, _, _)
Measure(d, i, cumulativeHeight) ==
    IF i > Len(d) THEN << >>
    ELSE IF IsBreak(d[i]) THEN Measure(d, i + 1, cumulativeHeight)
    ELSE << [type |-> d[i].type, height |-> offsetHeight(d[i]),
             top |-> cumulativeHeight, pos |-> NodePos(d, i)] >>
         \o Measure(d, i + 1, cumulativeHeight + offsetHeight(d[i]))

\* The nodeHeights list built by one call of updateMetrics.
updateMetrics(d) == Measure(d, 1, 0)

\* The forEach without the inner while loop: one break for a node, however
\* many page boundaries it crosses.
TallNodeNone(node, index, nodeBottom, pageHeight, currentPageEnd, pageNumber) == << >>

\* The inner while loop for a node taller than a page.
RECURSIVE TallNode(_, _, _, _, _, _)
TallNode(node, index, nodeBottom, pageHeight, currentPageEnd, pageNumber) ==
    IF nodeBottom > currentPageEnd
    THEN << [pageNumber |-> pageNumber, position |-> currentPageEnd,
             insertPos |-> node.pos + node.height, afterNodeIndex |-> index] >>
         \o TallNode(node, index, nodeBottom, pageHeight,
                     currentPageEnd + pageHeight, pageNumber + 1)
    ELSE << >>

\* The forEach with the boundary test written as >= .
RECURSIVE PlanFromGe(_, _, _, _, _)
PlanFromGe(nodeHeights, pageHeight, i, currentPageEnd, pageNumber) ==
    IF i > Len(nodeHeights) THEN << >>
    ELSE LET node == nodeHeights[i]
             nodeBottom == node.top + node.height
         IN  IF nodeBottom >= currentPageEnd
             THEN LET rest == TallNode(node, i - 1, nodeBottom, pageHeight,
                                       currentPageEnd + pageHeight, pageNumber + 1)
                  IN  << [pageNumber |-> pageNumber, position |-> currentPageEnd,
                          insertPos |-> node.pos, afterNodeIndex |-> (i - 1) - 1] >>
                      \o rest
                      \o PlanFromGe(nodeHeights, pageHeight, i + 1,
                                    currentPageEnd + (1 + Len(rest)) * pageHeight,
                                    pageNumber + 1 + Len(rest))
             ELSE PlanFromGe(nodeHeights, pageHeight, i + 1, currentPageEnd, pageNumber)

\* The forEach over nodeHeights; i is the 1-based index, index = i - 1.
RECURSIVE PlanFrom(_, _, _, _, _)
PlanFrom(nodeHeights, pageHeight, i, currentPageEnd, pageNumber) ==
    IF i > Len(nodeHeights) THEN << >>
    ELSE LET node == nodeHeights[i]
             nodeBottom == node.top + node.height
         IN  IF nodeBottom > currentPageEnd
             THEN LET rest == TallNode(node, i - 1, nodeBottom, pageHeight,
                                       currentPageEnd + pageHeight, pageNumber + 1)
                  IN  << [pageNumber |-> pageNumber, position |-> currentPageEnd,
                          insertPos |-> node.pos, afterNodeIndex |-> (i - 1) - 1] >>
                      \o rest
                      \o PlanFrom(nodeHeights, pageHeight, i + 1,
                                  currentPageEnd + (1 + Len(rest)) * pageHeight,
                                  pageNumber + 1 + Len(rest))
             ELSE PlanFrom(nodeHeights, pageHeight, i + 1, currentPageEnd, pageNumber)

calculatePageBreaks(nodeHeights, pageHeight) ==
    PlanFrom(nodeHeights, pageHeight, 1, pageHeight, 1)


\* ------------------------------------------------- use-page-break-manager.ts
\* The insert loop of the debounced pass: every break is tried, a throwing
\* insertion is caught and skipped.  r is the result of this iteration's
\* insertion, computed before the next iteration starts.
RECURSIVE InsertCaught(_, _, _, _)
InsertCaught(d, breaks, n, failed) ==
    IF n > Len(breaks)
    THEN [doc |-> d, attempted |-> Len(breaks), failed |-> failed, escaped |-> FALSE]
    ELSE CHOOSE out \in
           {InsertCaught(r.doc, breaks, n + 1, IF r.ok THEN failed ELSE failed + 1) :
              r \in {insertContentAt(d, breaks[n].insertPos, breaks[n].pageNumber)}} : TRUE

\* The insert loop of recalculate: no try/catch, a throwing insertion leaves
\* the forEach and recalculate.
RECURSIVE InsertUncaught(_, _, _)
InsertUncaught(d, breaks, n) ==
    IF n > Len(breaks)
    THEN [doc |-> d, attempted |-> Len(breaks), failed |-> 0, escaped |-> FALSE]
    ELSE LET r == insertContentAt(d, breaks[n].insertPos, breaks[n].pageNumber)
         IN  IF r.ok THEN InsertUncaught(r.doc, breaks, n + 1)
             ELSE [doc |-> d, attempted |-> n, failed |-> 1, escaped |-> TRUE]

\* ----------------------------------------------------------------- state
VARIABLES
    mounted,         \* the component that calls the two hooks is alive
    editor,          \* the editor prop: 0 is null, 1..MaxEditors an instance
    editorsMade,     \* number of editor instances created so far
    autoInsert,      \* options.autoInsert
    doc,             \* editor.state.doc of the current editor instance
    listeners,       \* editors whose 'update'/'transaction' call updateMetrics
    measureTimers,   \* pending setTimeout(updateMetrics, 100) timers
    nodeHeights,     \* heightMetrics.nodeHeights (the metrics state)
    timers,          \* pending debounce timers with what their closure captured
    timeoutRef,      \* timeoutRef.current: 0 is undefined, else a timer id
    lastBreakCountRef, \* lastBreakCountRef.current
    edits,           \* number of document edits the user has made (bounded)
    quiet,           \* time since the last metrics update, capped at debounceMs
    last,            \* what the last step did (history)
    plannerIn,       \* planner check: the input of calculatePageBreaks
    plannerOut,      \* planner check: its result
    removeIn,        \* removal check: the document removeAllPageBreaks was given
    removeOnce,      \* removal check: the document after its first application
    measureIn,       \* measurement check: the document tree that is measured
    pc,              \* pass check: "idle", or the phase of the pass that is running
    passLog,         \* pass check: the document changes made so far, in order
    passTodo,        \* pass check: positions removeAllPageBreaks still has to delete
    frame            \* loop check: the locals of a running calculatePageBreaks call

vars == << mounted, editor, editorsMade, autoInsert, doc, listeners, measureTimers,
           nodeHeights, timers, timeoutRef, lastBreakCountRef, edits, quiet,
           last, plannerIn, plannerOut, removeIn, removeOnce,
           measureIn, pc, passLog, passTodo, frame >>

checkVars == << measureIn, pc, passLog, passTodo, frame >>

pureVars == << plannerIn, plannerOut, removeIn, removeOnce,
               measureIn, pc, passLog, passTodo, frame >>

\* One more document edit by the user.
Edit == edits < MaxEdits /\ edits' = edits + 1

\* Documents a new editor instance can start with: the demo content, and a
\* saved document that already holds a marker.
InitialDocs == { << Para(3) >>, << Para(3), Brk(1), Para(3) >> }

\* op: "event" (a user or host event, time passing), "initialMeasure",
\* "debounced" or "recalculate"; measured: updateMetrics ran in the step;
\* rewrote: the step ran the remove-all / insert-all sequence; attempted,
\* failed: insertions tried and insertions that threw; escaped: an exception
\* left the handler; stale: the timer that fired was set before the last
\* teardown / input change; afterEdit: the pass that ran was (re)scheduled
\* by a user's document edit; cancelled: the step cleared a pending timer.
NoOp(name) ==
    [op |-> name, measured |-> FALSE, rewrote |-> FALSE,
     attempted |-> 0, failed |-> 0, escaped |-> FALSE, stale |-> FALSE,
     afterEdit |-> FALSE, cancelled |-> FALSE]

NoPlanner == [nodes |-> << >>, pageHeight |-> 1]

\* No call of calculatePageBreaks is running.
NoFrame ==
    [at |-> "none", index |-> 0, currentPageEnd |-> 0, pageNumber |-> 0,
     breaks |-> << >>, visited |-> << >>]

Init ==
    /\ mounted = TRUE
    /\ editor = 0
    /\ editorsMade = 0
    /\ autoInsert = TRUE
    /\ doc = << >>
    /\ listeners = {}
    /\ measureTimers = {}
    /\ nodeHeights = << >>
    /\ timers = {}
    /\ timeoutRef = 0
    /\ lastBreakCountRef = 0
    /\ edits = 0
    /\ quiet = 0
    /\ last = NoOp("event")
    /\ plannerIn = NoPlanner
    /\ plannerOut = << >>
    /\ removeIn = << >>
    /\ removeOnce = << >>
    /\ measureIn = << >>
    /\ pc = "idle"
    /\ passLog = << >>
    /\ passTodo = << >>
    /\ frame = NoFrame

\* ------------------------------------------------------ timers and effects
clearTimeoutNoop(ts, id) == ts

clearTimeout(ts, id) == {t \in ts : t.id # id}

\* The handle setTimeout returns: one no pending timer has.
FreshId(ts) == CHOOSE i \in 1..(Cardinality(ts) + 1) :
                  /\ \A t \in ts : t.id # i
                  /\ \A j \in 1..(i - 1) : \E t \in ts : t.id = j

\* The effect without its early return for a null editor or autoInsert off.
ManagerEffectUnguarded(ts, ref, wasActive, ed, auto, nh) ==
    LET cleared == clearTimeout(ts, ref)
        id == FreshId(cleared)
    IN  [timers |-> cleared \cup
                      {[id |-> id, editor |-> ed, nodeHeights |-> nh,
                        remaining |-> debounceMs, stale |-> FALSE,
                        afterEdit |-> FALSE]},
         ref |-> id]

\* The effect of usePageBreakManager, run after a render in which one of its
\* dependencies changed: the cleanup returned by the previous run (present when
\* that run did not return early), then the effect body.
ManagerEffect(ts, ref, wasActive, ed, auto, nh) ==
    LET cleaned == IF wasActive THEN clearTimeout(ts, ref) ELSE ts
    IN  IF ed = 0 \/ ~auto THEN [timers |-> cleaned, ref |-> ref]
        ELSE LET cleared == clearTimeout(cleaned, ref)
                 id == FreshId(cleared)
             IN  [timers |-> cleared \cup
                               {[id |-> id, editor |-> ed, nodeHeights |-> nh,
                                 remaining |-> debounceMs, stale |-> FALSE,
                                 afterEdit |-> FALSE]},
                  ref |-> id]

\* The cleanup of the effect of usePageBreakManager alone (unmount).
ManagerCleanupNone(ts, ref, wasActive) == ts

ManagerCleanup(ts, ref, wasActive) ==
    IF wasActive THEN clearTimeout(ts, ref) ELSE ts

\* The cleanup of the effect of useEditorHeight: editor.off twice, clearTimeout.
HeightCleanup(ls, ms, ed) ==
    [listeners |-> ls \ {ed}, measureTimers |-> {m \in ms : m.editor # ed}]

\* The effect body of useEditorHeight for editor ed.
HeightEffect(ls, ms, ed) ==
    IF ed = 0 THEN [listeners |-> ls, measureTimers |-> ms]
    ELSE [listeners |-> ls \cup {ed},
          measureTimers |-> ms \cup {[editor |-> ed, remaining |-> InitialMeasureMs]}]

Active == editor # 0 /\ autoInsert

\* History kept in the timers: a timer that survives a change of the hook's
\* inputs is marked stale; a timer set by a render that a user's document edit
\* caused, or that replaces such a timer, is marked afterEdit.
MarkStale(new, old) ==
    {IF t \in old THEN [t EXCEPT !.stale = TRUE] ELSE t : t \in new}

MarkEdit(new, old, isEdit) ==
    {IF t \in old THEN t
     ELSE [t EXCEPT !.afterEdit = isEdit \/ \E u \in old : u.afterEdit] : t \in new}

Cancelled(old, new) == \E t \in old : t \notin new

\* A transaction was dispatched on the current editor and left document d2:
\* 'transaction' (and 'update') call updateMetrics when it is subscribed, and
\* setMetrics re-renders the component and re-runs the manager's effect.
\* ts and ref are the timers and timeoutRef.current the handler left.
Dispatch(d2, ts, ref, h, isEdit) ==
    /\ doc' = d2
    /\ IF editor \in listeners
       THEN /\ nodeHeights' = updateMetrics(d2)
            /\ quiet' = 0
            /\ LET e == IF mounted
                        THEN ManagerEffect(ts, ref, Active, editor, autoInsert,
                                           updateMetrics(d2))
                        ELSE [timers |-> ts, ref |-> ref]
               IN  /\ timers' = MarkEdit(e.timers, ts, isEdit)
                   /\ timeoutRef' = e.ref
                   /\ last' = [h EXCEPT !.measured = TRUE,
                                        !.cancelled = @ \/ Cancelled(ts, e.timers)]
       ELSE /\ UNCHANGED << nodeHeights, quiet >>
            /\ timers' = ts
            /\ timeoutRef' = ref
            /\ last' = h

\* ------------------------------------------------------------ user actions
TypeText(i, n) ==
    /\ editor # 0
    /\ Edit
    /\ i \in 1..Len(doc)
    /\ ~IsBreak(doc[i])
    /\ n # doc[i].len
    /\ Dispatch(ReplaceAt(doc, i, << Para(n) >>), timers, timeoutRef, NoOp("event"), TRUE)
    /\ UNCHANGED << mounted, editor, editorsMade, autoInsert, listeners, measureTimers,
                    lastBreakCountRef, pureVars >>

InsertParagraph(n) ==
    /\ editor # 0
    /\ Edit
    /\ Len(Content(doc)) < MaxNodes
    /\ Len(doc) < MaxDocLen
    /\ Dispatch(doc \o << Para(n) >>, timers, timeoutRef, NoOp("event"), TRUE)
    /\ UNCHANGED << mounted, editor, editorsMade, autoInsert, listeners, measureTimers,
                    lastBreakCountRef, pureVars >>

DeleteNode(i) ==
    /\ editor # 0
    /\ Edit
    /\ i \in 1..Len(doc)
    /\ Dispatch(ReplaceAt(doc, i, << >>), timers, timeoutRef, NoOp("event"), TRUE)
    /\ UNCHANGED << mounted, editor, editorsMade, autoInsert, listeners, measureTimers,
                    lastBreakCountRef, pureVars >>

\* The setPageBreak command, used with the cursor between two blocks.
UserSetPageBreak(k) ==
    /\ editor # 0
    /\ Edit
    /\ NumMarkers(doc) < MaxUserBreaks
    /\ Len(doc) < MaxDocLen
    /\ k \in 0..Len(doc)
    /\ Dispatch(InsertAt(doc, k, << Brk(1) >>), timers, timeoutRef, NoOp("event"), TRUE)
    /\ UNCHANGED << mounted, editor, editorsMade, autoInsert, listeners, measureTimers,
                    lastBreakCountRef, pureVars >>

\* A transaction that does not change the document (the selection moved).
SelectionTransaction ==
    /\ editor # 0
    /\ editor \in listeners
    /\ Dispatch(doc, timers, timeoutRef, NoOp("event"), FALSE)
    /\ UNCHANGED << mounted, editor, editorsMade, autoInsert, listeners, measureTimers,
                    lastBreakCountRef, edits, pureVars >>

\* ------------------------------------------------------------- host actions
\* The editor prop becomes a new editor instance.
SetEditor(d0) ==
    /\ mounted
    /\ editorsMade < MaxEditors
    /\ LET e == editorsMade + 1
           c == IF editor = 0 THEN [listeners |-> listeners, measureTimers |-> measureTimers]
                ELSE HeightCleanup(listeners, measureTimers, editor)
           h == HeightEffect(c.listeners, c.measureTimers, e)
           m == ManagerEffect(timers, timeoutRef, Active, e, autoInsert, nodeHeights)
       IN  /\ editor' = e
           /\ editorsMade' = e
           /\ doc' = d0
           /\ listeners' = h.listeners
           /\ measureTimers' = h.measureTimers
           /\ timers' = MarkStale(m.timers, timers)
           /\ timeoutRef' = m.ref
           /\ last' = [NoOp("event") EXCEPT !.cancelled = Cancelled(timers, m.timers)]
    /\ UNCHANGED << mounted, autoInsert, nodeHeights, lastBreakCountRef, edits, quiet,
                    pureVars >>

\* The editor prop becomes null.
SetEditorNull ==
    /\ mounted
    /\ editor # 0
    /\ LET c == HeightCleanup(listeners, measureTimers, editor)
           m == ManagerEffect(timers, timeoutRef, Active, 0, autoInsert, nodeHeights)
       IN  /\ editor' = 0
           /\ doc' = << >>
           /\ listeners' = c.listeners
           /\ measureTimers' = c.measureTimers
           /\ timers' = MarkStale(m.timers, timers)
           /\ timeoutRef' = m.ref
           /\ last' = [NoOp("event") EXCEPT !.cancelled = Cancelled(timers, m.timers)]
    /\ UNCHANGED << mounted, editorsMade, autoInsert, nodeHeights, lastBreakCountRef,
                    edits, quiet, pureVars >>

\* options.autoInsert is switched off.
AutoInsertOff ==
    /\ mounted
    /\ autoInsert
    /\ LET m == ManagerEffect(timers, timeoutRef, Active, editor, FALSE, nodeHeights)
       IN  /\ autoInsert' = FALSE
           /\ timers' = MarkStale(m.timers, timers)
           /\ timeoutRef' = m.ref
           /\ last' = [NoOp("event") EXCEPT !.cancelled = Cancelled(timers, m.timers)]
    /\ UNCHANGED << mounted, editor, editorsMade, doc, listeners, measureTimers,
                    nodeHeights, lastBreakCountRef, edits, quiet, pureVars >>

\* The owning component is torn down; the editor instance lives on.
Unmount ==
    /\ mounted
    /\ mounted' = FALSE
    /\ LET c == IF editor = 0 THEN [listeners |-> listeners, measureTimers |-> measureTimers]
                ELSE HeightCleanup(listeners, measureTimers, editor)
           ts == ManagerCleanup(timers, timeoutRef, Active)
       IN  /\ listeners' = c.listeners
           /\ measureTimers' = c.measureTimers
           /\ timers' = MarkStale(ts, timers)
           /\ last' = [NoOp("event") EXCEPT !.cancelled = Cancelled(timers, ts)]
    /\ UNCHANGED << editor, editorsMade, autoInsert, doc, nodeHeights, timeoutRef,
                    lastBreakCountRef, edits, quiet, pureVars >>

\* ------------------------------------------------------------------- time
Pending == timers \cup measureTimers

\* Time advances to the moment the next timer is due, or by a shorter step
\* right after a debounce timer was set.
Tick(d) ==
    /\ Pending # {}
    /\ \A t \in Pending : t.remaining >= d
    /\ \/ \E t \in Pending : t.remaining = d
       \/ \A t \in Pending : t.remaining = debounceMs
    /\ timers' = {[t EXCEPT !.remaining = @ - d] : t \in timers}
    /\ measureTimers' = {[t EXCEPT !.remaining = @ - d] : t \in measureTimers}
    /\ quiet' = Min(quiet + d, debounceMs)
    /\ last' = NoOp("event")
    /\ UNCHANGED << mounted, editor, editorsMade, autoInsert, doc, listeners,
                    nodeHeights, timeoutRef, lastBreakCountRef, edits, pureVars >>

\* setTimeout(updateMetrics, 100) fires.
InitialMeasure(m) ==
    /\ m \in measureTimers
    /\ m.remaining = 0
    /\ measureTimers' = measureTimers \ {m}
    /\ LET nh == IF m.editor = editor THEN updateMetrics(doc) ELSE nodeHeights
           e == IF mounted
                THEN ManagerEffect(timers, timeoutRef, Active, editor, autoInsert, nh)
                ELSE [timers |-> timers, ref |-> timeoutRef]
       IN  /\ nodeHeights' = nh
           /\ timers' = MarkEdit(e.timers, timers, FALSE)
           /\ timeoutRef' = e.ref
           /\ last' = [NoOp("initialMeasure") EXCEPT
                          !.measured = TRUE, !.cancelled = Cancelled(timers, e.timers)]
    /\ quiet' = 0
    /\ UNCHANGED << mounted, editor, editorsMade, autoInsert, doc, listeners,
                    lastBreakCountRef, edits, pureVars >>

\* ------------------------------------------------------- reconciliation
\* The debounced pass without the test on the break count.
DebouncedPassAlways(t) ==
    /\ t \in timers
    /\ t.remaining = 0
    /\ Len(doc) <= MaxDocLen
    /\ t.editor = editor
    /\ LET breaks == calculatePageBreaks(t.nodeHeights, PAGE_HEIGHT)
           r == InsertCaught(removeAllPageBreaks(doc), breaks, 1, 0)
       IN  /\ lastBreakCountRef' = Len(breaks)
           /\ Dispatch(r.doc, timers \ {t}, timeoutRef,
                       [NoOp("debounced") EXCEPT !.rewrote = TRUE,
                                                 !.attempted = r.attempted,
                                                 !.failed = r.failed], FALSE)
    /\ UNCHANGED << mounted, editor, editorsMade, autoInsert, listeners, measureTimers,
                    edits, pureVars >>

\* The callback of the debounce timer t fires.
DebouncedPass(t) ==
    /\ t \in timers
    /\ t.remaining = 0
    /\ LET breaks == calculatePageBreaks(t.nodeHeights, PAGE_HEIGHT)
           h == [NoOp("debounced") EXCEPT !.stale = t.stale \/ t.editor # editor,
                                          !.afterEdit = t.afterEdit]
       IN  IF Len(breaks) # lastBreakCountRef
           THEN /\ lastBreakCountRef' = Len(breaks)
                /\ IF t.editor = editor
                   THEN LET r == InsertCaught(removeAllPageBreaks(doc), breaks, 1, 0)
                        IN  Dispatch(r.doc, timers \ {t}, timeoutRef,
                                     [h EXCEPT !.rewrote = TRUE,
                                               !.attempted = r.attempted,
                                               !.failed = r.failed], FALSE)
                   ELSE /\ timers' = timers \ {t}
                        /\ last' = [h EXCEPT !.rewrote = TRUE]
                        /\ UNCHANGED << doc, nodeHeights, timeoutRef, quiet >>
           ELSE /\ timers' = timers \ {t}
                /\ last' = h
                /\ UNCHANGED << doc, nodeHeights, timeoutRef, quiet, lastBreakCountRef >>
    /\ UNCHANGED << mounted, editor, editorsMade, autoInsert, listeners, measureTimers,
                    edits, pureVars >>

\* The recalculate function returned by the hook is called.
Recalculate ==
    /\ mounted
    /\ Len(doc) <= MaxDocLen
    /\ LET breaks == calculatePageBreaks(nodeHeights, PAGE_HEIGHT)
           ts == clearTimeout(timers, timeoutRef)
           h == [NoOp("recalculate") EXCEPT !.cancelled = Cancelled(timers, ts)]
       IN  IF editor # 0
           THEN LET r == InsertUncaught(removeAllPageBreaks(doc), breaks, 1)
                IN  Dispatch(r.doc, ts, timeoutRef,
                             [h EXCEPT !.rewrote = TRUE, !.attempted = r.attempted,
                                       !.failed = r.failed, !.escaped = r.escaped], FALSE)
           ELSE /\ timers' = ts
                /\ last' = h
                /\ UNCHANGED << doc, nodeHeights, timeoutRef, quiet >>
    /\ UNCHANGED << mounted, editor, editorsMade, autoInsert, listeners, measureTimers,
                    lastBreakCountRef, edits, pureVars >>

Next ==
    \/ \E i \in 1..(MaxDocLen + 4), n \in Lens : TypeText(i, n)
    \/ \E n \in Lens : InsertParagraph(n)
    \/ \E i \in 1..(MaxDocLen + 4) : DeleteNode(i)
    \/ \E k \in 0..MaxDocLen : UserSetPageBreak(k)
    \/ SelectionTransaction
    \/ \E d0 \in InitialDocs : SetEditor(d0)
    \/ SetEditorNull
    \/ AutoInsertOff
    \/ Unmount
    \/ \E d \in TickSteps : Tick(d)
    \/ \E m \in measureTimers : InitialMeasure(m)
    \/ \E t \in timers : Len(doc) <= MaxDocLen /\ DebouncedPass(t)
    \/ Recalculate

Spec == Init /\ [][Next]_vars

\* ---------------------------------------------- the planner on its own
\* calculatePageBreaks applied to every list of at most MaxPlanNodes records
\* with cumulative tops, heights 0..MaxPlanHeight and node sizes 1 or 2, and
\* every page height 1..MaxPlanPage.
RECURSIVE Cumulative(_, _, _, _)
Cumulative(shape, i, top, pos) ==
    IF i > Len(shape) THEN << >>
    ELSE << [type |-> "paragraph", height |-> shape[i][1], top |-> top, pos |-> pos] >>
         \o Cumulative(shape, i + 1, top + shape[i][1], pos + shape[i][2])

PlanShapes ==
    UNION {[1..n -> (0..MaxPlanHeight) \X {1, 2}] : n \in 0..MaxPlanNodes}

IdleSystem ==
    /\ mounted = TRUE
    /\ editor = 0
    /\ editorsMade = 0
    /\ autoInsert = TRUE
    /\ listeners = {}
    /\ measureTimers = {}
    /\ nodeHeights = << >>
    /\ timers = {}
    /\ timeoutRef = 0
    /\ lastBreakCountRef = 0
    /\ edits = 0
    /\ quiet = 0
    /\ pc = "idle"
    /\ passLog = << >>
    /\ passTodo = << >>
    /\ frame = NoFrame

PlannerInit ==
    /\ IdleSystem
    /\ doc = << >>
    /\ last = NoOp("input")
    /\ \E shape \in PlanShapes, ph \in 1..MaxPlanPage :
          plannerIn = [nodes |-> Cumulative(shape, 1, 0, 0), pageHeight |-> ph]
    /\ plannerOut = << >>
    /\ removeIn = << >>
    /\ removeOnce = << >>
    /\ measureIn = << >>

PlannerCall ==
    /\ last.op = "input"
    /\ plannerOut' = calculatePageBreaks(plannerIn.nodes, plannerIn.pageHeight)
    /\ last' = NoOp("planned")
    /\ UNCHANGED << mounted, editor, editorsMade, autoInsert, doc, listeners,
                    measureTimers, nodeHeights, timers, timeoutRef, lastBreakCountRef,
                    edits, quiet, plannerIn, removeIn, removeOnce >>
    /\ UNCHANGED checkVars

PlannerNext == PlannerCall

PlannerSpec == PlannerInit /\ [][PlannerNext]_vars

\* ------------------------------------------- removeAllPageBreaks on its own
\* The command applied, twice in a row, to every document of at most
\* MaxRemoveLen nodes drawn from RemoveNodes.
RemoveNodes == {Para(0), Para(3), Brk(1), Brk(2)}

RemoveDocs == UNION {[1..n -> RemoveNodes] : n \in 0..MaxRemoveLen}

RemoveInit ==
    /\ IdleSystem
    /\ doc \in RemoveDocs
    /\ removeIn = doc
    /\ removeOnce = << >>
    /\ last = NoOp("input")
    /\ plannerIn = NoPlanner
    /\ plannerOut = << >>
    /\ measureIn = << >>

RemoveFirst ==
    /\ last.op = "input"
    /\ doc' = removeAllPageBreaks(doc)
    /\ removeOnce' = removeAllPageBreaks(doc)
    /\ last' = NoOp("removed")
    /\ UNCHANGED << mounted, editor, editorsMade, autoInsert, listeners,
                    measureTimers, nodeHeights, timers, timeoutRef, lastBreakCountRef,
                    edits, quiet, plannerIn, plannerOut, removeIn >>
    /\ UNCHANGED checkVars

RemoveSecond ==
    /\ last.op = "removed"
    /\ doc' = removeAllPageBreaks(doc)
    /\ last' = NoOp("removedTwice")
    /\ UNCHANGED << mounted, editor, editorsMade, autoInsert, listeners,
                    measureTimers, nodeHeights, timers, timeoutRef, lastBreakCountRef,
                    edits, quiet, plannerIn, plannerOut, removeIn, removeOnce >>
    /\ UNCHANGED checkVars

RemoveNext == RemoveFirst \/ RemoveSecond

RemoveSpec == RemoveInit /\ [][RemoveNext]_vars

\* ------------------------------------------------ updateMetrics on its own
\* updateMetrics applied to documents whose blocks can be nested (a
\* blockquote holding paragraphs) and whose nodes can lack a rendered element
\* (nodeDOM gives no HTMLElement). height is the offsetHeight of the rendered
\* element.
MPara(h, r) == [type |-> "paragraph", height |-> h, rendered |-> r, children |-> << >>]

MBreak == [type |-> "pageBreak", height |-> 1, rendered |-> TRUE, children |-> << >>]

RECURSIVE SumHeights(_, _)
SumHeights(nodes, n) ==
    IF n = 0 THEN 0
    ELSE SumHeights(nodes, n - 1)
         + (IF nodes[n].rendered /\ nodes[n].type # "pageBreak"
            THEN nodes[n].height ELSE 0)

\* A blockquote is as high as the paragraphs rendered in it.
MQuote(children, r) ==
    [type |-> "blockquote", height |-> SumHeights(children, Len(children)),
     rendered |-> r, children |-> children]

RECURSIVE MSize(_)
RECURSIVE MSizes(_, _)
MSize(node) ==
    IF node.type = "pageBreak" THEN 1
    ELSE 2 + MSizes(node.children, Len(node.children))

MSizes(nodes, n) == IF n = 0 THEN 0 ELSE MSizes(nodes, n - 1) + MSize(nodes[n])

\* doc.descendants: every node with its position, parents before children.
RECURSIVE descendants(_, _, _)
descendants(nodes, i, pos) ==
    IF i > Len(nodes) THEN << >>
    ELSE << [node |-> nodes[i], pos |-> pos] >>
         \o descendants(nodes[i].children, 1, pos + 1)
         \o descendants(nodes, i + 1, pos + MSize(nodes[i]))

\* The callback passed to descendants, applied to the visited nodes in turn.
RECURSIVE MeasureVisited(_, _, _)
MeasureVisited(visited, i, cumulativeHeight) ==
    IF i > Len(visited) THEN << >>
    ELSE LET node == visited[i].node
         IN  IF node.type # "pageBreak" /\ node.rendered
             THEN << [type |-> node.type, height |-> node.height,
                      top |-> cumulativeHeight, pos |-> visited[i].pos] >>
                  \o MeasureVisited(visited, i + 1, cumulativeHeight + node.height)
             ELSE MeasureVisited(visited, i + 1, cumulativeHeight)

MeasureLeaves ==
    {MPara(h, r) : h \in 1..MaxMeasureHeight, r \in BOOLEAN} \cup {MBreak}

\* Blockquotes of one or two paragraphs; nothing is rendered inside a
\* blockquote that is not rendered.
MeasureQuotes ==
    {MQuote(c, r) :
        c \in UNION {[1..n -> {MPara(h, q) : h \in 1..MaxMeasureHeight, q \in BOOLEAN}]
                       : n \in 1..2},
        r \in BOOLEAN}

MeasureDocs ==
    {d \in UNION {[1..n -> MeasureLeaves \cup MeasureQuotes] : n \in 0..MaxMeasureLen} :
        \A i \in 1..Len(d) :
            ~d[i].rendered => \A k \in 1..Len(d[i].children) : ~d[i].children[k].rendered}

MeasureInit ==
    /\ IdleSystem
    /\ doc = << >>
    /\ measureIn \in MeasureDocs
    /\ last = NoOp("input")
    /\ plannerIn = NoPlanner
    /\ plannerOut = << >>
    /\ removeIn = << >>
    /\ removeOnce = << >>

MeasureCall ==
    /\ last.op = "input"
    /\ nodeHeights' = MeasureVisited(descendants(measureIn, 1, 0), 1, 0)
    /\ last' = [NoOp("measured") EXCEPT !.measured = TRUE]
    /\ UNCHANGED << mounted, editor, editorsMade, autoInsert, doc, listeners,
                    measureTimers, timers, timeoutRef, lastBreakCountRef, edits,
                    quiet, plannerIn, plannerOut, removeIn, removeOnce >>
    /\ UNCHANGED checkVars

\* A second measurement of the same document.
MeasureAgain ==
    /\ last.op = "measured"
    /\ nodeHeights' = MeasureVisited(descendants(measureIn, 1, 0), 1, 0)
    /\ last' = [NoOp("measuredTwice") EXCEPT !.measured = TRUE]
    /\ UNCHANGED << mounted, editor, editorsMade, autoInsert, doc, listeners,
                    measureTimers, timers, timeoutRef, lastBreakCountRef, edits,
                    quiet, plannerIn, plannerOut, removeIn, removeOnce >>
    /\ UNCHANGED checkVars

MeasureNext == MeasureCall \/ MeasureAgain

MeasureSpec == MeasureInit /\ [][MeasureNext]_vars

\* ---------------------------------------------- a pass, one step at a time
\* The debounced callback and recalculate executed statement by statement:
\* each tr.delete of removeAllPageBreaks and each insertContentAt is a step.
\* JavaScript runs a callback to completion: a timer callback or a call of
\* recalculate starts only when no callback is running (pc = "idle").
\* 'transaction' calls updateMetrics inside the pass; the render that re-runs
\* the manager's effect comes after the callback returned.
PassDocs ==
    UNION {[1..n -> {Para(3), Para(3996), Brk(1), Brk(2)}] : n \in 1..MaxPassLen}

Started == SelectSeq(passLog, LAMBDA e : e.step = "start")

CurrentPass == Len(Started)

\* Number of insertions the running pass has made or tried.
Inserted ==
    Len(SelectSeq(passLog, LAMBDA e : e.step = "insert" /\ e.pass = CurrentPass))

PassInit ==
    /\ mounted = TRUE
    /\ editor = 1
    /\ editorsMade = 1
    /\ autoInsert = TRUE
    /\ doc \in PassDocs
    /\ listeners = {1}
    /\ measureTimers = {}
    /\ nodeHeights = updateMetrics(doc)
    /\ timers = {[id |-> 1, editor |-> 1, nodeHeights |-> updateMetrics(doc),
                   remaining |-> 0, stale |-> FALSE, afterEdit |-> FALSE]}
    /\ timeoutRef = 1
    /\ lastBreakCountRef = 0
    /\ edits = 0
    /\ quiet = debounceMs
    /\ last = NoOp("event")
    /\ plannerIn = NoPlanner
    /\ plannerOut = << >>
    /\ removeIn = doc
    /\ removeOnce = << >>
    /\ measureIn = << >>
    /\ pc = "idle"
    /\ passLog = << >>
    /\ passTodo = << >>
    /\ frame = NoFrame

\* The debounce timer t fires: lines 34-45, up to the call of
\* removeAllPageBreaks.
PassStartDebounced(t) ==
    /\ pc = "idle"
    /\ CurrentPass < MaxPasses
    /\ t \in timers
    /\ t.remaining = 0
    /\ timers' = timers \ {t}
    /\ LET breaks == calculatePageBreaks(t.nodeHeights, PAGE_HEIGHT)
       IN  IF Len(breaks) # lastBreakCountRef
           THEN /\ pc' = "removing"
                /\ plannerOut' = breaks
                /\ passTodo' = Reverse(FindPageBreaks(doc))
                /\ removeIn' = doc
                /\ passLog' = Append(passLog, [pass |-> CurrentPass + 1, step |-> "start",
                                               at |-> 0])
                /\ last' = [NoOp("debounced") EXCEPT !.rewrote = TRUE]
           ELSE /\ last' = NoOp("debounced")
                /\ UNCHANGED << pc, plannerOut, passTodo, removeIn, passLog >>
    /\ UNCHANGED frame
    /\ UNCHANGED << mounted, editor, editorsMade, autoInsert, doc, listeners,
                    measureTimers, nodeHeights, timeoutRef, lastBreakCountRef, edits,
                    quiet, plannerIn, removeOnce, measureIn >>

\* recalculate is called: lines 86-91, up to the call of removeAllPageBreaks.
PassStartRecalculate ==
    /\ pc = "idle"
    /\ CurrentPass < MaxPasses
    /\ timers' = clearTimeout(timers, timeoutRef)
    /\ pc' = "removing"
    /\ plannerOut' = calculatePageBreaks(nodeHeights, PAGE_HEIGHT)
    /\ passTodo' = Reverse(FindPageBreaks(doc))
    /\ removeIn' = doc
    /\ passLog' = Append(passLog, [pass |-> CurrentPass + 1, step |-> "start", at |-> 0])
    /\ last' = [NoOp("recalculate") EXCEPT !.rewrote = TRUE]
    /\ UNCHANGED frame
    /\ UNCHANGED << mounted, editor, editorsMade, autoInsert, doc, listeners,
                    measureTimers, nodeHeights, timeoutRef, lastBreakCountRef, edits,
                    quiet, plannerIn, removeOnce, measureIn >>

\* One tr.delete of removeAllPageBreaks.
PassRemoveStep ==
    /\ pc = "removing"
    /\ passTodo # << >>
    /\ doc' = TrDelete(doc, Head(passTodo).pos, Head(passTodo).pos + Head(passTodo).size)
    /\ passTodo' = Tail(passTodo)
    /\ passLog' = Append(passLog, [pass |-> CurrentPass, step |-> "remove",
                                   at |-> Head(passTodo).pos])
    /\ UNCHANGED frame
    /\ UNCHANGED << mounted, editor, editorsMade, autoInsert, listeners, measureTimers,
                    nodeHeights, timers, timeoutRef, lastBreakCountRef, edits, quiet,
                    last, plannerIn, plannerOut, removeIn, removeOnce, measureIn, pc >>

\* removeAllPageBreaks returns and its transaction is dispatched.
PassRemoveDone ==
    /\ pc = "removing"
    /\ passTodo = << >>
    /\ pc' = "inserting"
    /\ nodeHeights' = updateMetrics(doc)
    /\ last' = [last EXCEPT !.measured = TRUE]
    /\ UNCHANGED frame
    /\ UNCHANGED << mounted, editor, editorsMade, autoInsert, doc, listeners,
                    measureTimers, timers, timeoutRef, lastBreakCountRef, edits, quiet,
                    plannerIn, plannerOut, removeIn, removeOnce, measureIn, passLog,
                    passTodo >>

\* The callback returned (or an exception left it): the component renders
\* with the new metrics and the manager's effect runs again.
PassReturn(escaped) ==
    /\ pc' = "idle"
    /\ LET e == ManagerEffect(timers, timeoutRef, Active, editor, autoInsert,
                              nodeHeights')
       IN  timers' = e.timers /\ timeoutRef' = e.ref
    /\ quiet' = 0
    /\ last' = [last EXCEPT !.escaped = escaped, !.attempted = Inserted',
                            !.measured = TRUE]

\* One iteration of breaks.forEach: insertContentAt and its transaction.
PassInsertStep ==
    /\ pc = "inserting"
    /\ Inserted < Len(plannerOut)
    /\ LET b == plannerOut[Inserted + 1]
           r == insertContentAt(doc, b.insertPos, b.pageNumber)
           thrown == ~r.ok /\ last.op = "recalculate"
       IN  /\ doc' = r.doc
           /\ nodeHeights' = updateMetrics(r.doc)
           /\ passLog' = Append(passLog, [pass |-> CurrentPass, step |-> "insert",
                                          at |-> Inserted + 1])
           /\ IF thrown
              THEN PassReturn(TRUE)
              ELSE /\ last' = [last EXCEPT !.failed = @ + (IF r.ok THEN 0 ELSE 1)]
                   /\ UNCHANGED << pc, timers, timeoutRef, quiet >>
    /\ UNCHANGED frame
    /\ UNCHANGED << mounted, editor, editorsMade, autoInsert, listeners, measureTimers,
                    lastBreakCountRef, edits, plannerIn, plannerOut, removeIn,
                    removeOnce, measureIn, passTodo >>

\* forEach is over: line 72 in the debounced pass, then the callback returns.
PassInsertDone ==
    /\ pc = "inserting"
    /\ Inserted = Len(plannerOut)
    /\ lastBreakCountRef' = IF last.op = "debounced" THEN Len(plannerOut)
                            ELSE lastBreakCountRef
    /\ UNCHANGED frame
    /\ UNCHANGED << mounted, editor, editorsMade, autoInsert, doc, listeners,
                    measureTimers, nodeHeights, edits, plannerIn, plannerOut, removeIn,
                    removeOnce, measureIn, passLog, passTodo >>
    /\ PassReturn(FALSE)

\* The debounce delay passes while nothing runs.
PassTick ==
    /\ pc = "idle"
    /\ \E t \in timers : t.remaining > 0
    /\ timers' = {[t EXCEPT !.remaining = 0] : t \in timers}
    /\ quiet' = debounceMs
    /\ last' = NoOp("event")
    /\ UNCHANGED frame
    /\ UNCHANGED << mounted, editor, editorsMade, autoInsert, doc, listeners,
                    measureTimers, nodeHeights, timeoutRef, lastBreakCountRef, edits,
                    plannerIn, plannerOut, removeIn, removeOnce, measureIn, pc,
                    passLog, passTodo >>

PassNext ==
    \/ \E t \in timers : PassStartDebounced(t)
    \/ PassStartRecalculate
    \/ PassRemoveStep
    \/ PassRemoveDone
    \/ PassInsertStep
    \/ PassInsertDone
    \/ PassTick

PassSpec == PassInit /\ [][PassNext]_vars

\* ======================================================= checked properties
Bottom(nh, i) == nh[i].top + nh[i].height

LastBottom(nh) == IF nh = << >> THEN 0 ELSE Bottom(nh, Len(nh))

PlanOf(nh) == calculatePageBreaks(nh, PAGE_HEIGHT)

\* Index of the first measured node whose bottom edge exceeds k pages.
FirstOver(nh, k) ==
    CHOOSE i \in 1..Len(nh) :
        /\ Bottom(nh, i) > k * PAGE_HEIGHT
        /\ \A j \in 1..(i - 1) : Bottom(nh, j) <= k * PAGE_HEIGHT

NoTall(nh) == \A i \in 1..Len(nh) : nh[i].height <= PAGE_HEIGHT

\* In d the marker of page k sits directly before the i-th content node, which
\* is node.
MarkerBefore(d, k, node, i) ==
    \E p \in 1..(Len(d) - 1) :
        /\ d[p] = Brk(k)
        /\ d[p + 1] = node
        /\ Len(Content(SubSeq(d, 1, p))) = i - 1

PageNumbers(d) == [n \in 1..NumMarkers(d) |-> Markers(d)[n].pageNumber]

\* C1: for cumulative tops and pageHeight >= 1, calculatePageBreaks returns
\* exactly one break for each k >= 1 with k * pageHeight strictly below the
\* bottom edge of the last node, the k-th break having pageNumber k and
\* position k * pageHeight; a bottom edge equal to k * pageHeight gives no
\* break at that multiple.
C1_BreaksAtPageMultiples ==
    last.op = "planned" =>
        LET B == LastBottom(plannerIn.nodes)
            ph == plannerIn.pageHeight
        IN  /\ Len(plannerOut) = Cardinality({k \in 1..B : k * ph < B})
            /\ \A k \in 1..Len(plannerOut) :
                  /\ plannerOut[k].pageNumber = k
                  /\ plannerOut[k].position = k * ph

C1_Witness ==
    /\ last.op = "planned"
    /\ Len(plannerOut) >= 2
    /\ \E i \in 1..Len(plannerIn.nodes) :
          Bottom(plannerIn.nodes, i) = 2 * plannerIn.pageHeight

\* C2: after a debounced pass that rewrote the markers, with no node taller
\* than a page and no failed insertion, the marker of page k sits directly
\* before the first measured node whose bottom edge exceeds k * pageHeight.
C2_MarkerBeforePageStart ==
    [][\A t \in timers :
          ( /\ t.remaining = 0
            /\ last'.op = "debounced" /\ last'.rewrote /\ last'.failed = 0
            /\ ~last'.stale
            /\ Len(t.nodeHeights) = Len(Content(doc))
            /\ NoTall(t.nodeHeights) )
          => \A k \in 1..Len(PlanOf(t.nodeHeights)) :
                MarkerBefore(doc', k, Content(doc)[FirstOver(t.nodeHeights, k)],
                             FirstOver(t.nodeHeights, k))]_vars

\* C3: after a pass that rewrote the markers with no failed insertion, the
\* document holds exactly len(plan) markers, numbered 1 .. len(plan) in
\* document order.
C3_MarkersNumberedInOrder ==
    ( /\ last.op \in {"debounced", "recalculate"}
      /\ last.rewrote /\ last.failed = 0 /\ ~last.stale )
    => PageNumbers(doc) = [k \in 1..last.attempted |-> k]

\* C4: with an editor present and autoInsert on, once a content change was
\* followed by a quiet debounce window (the debounced pass it scheduled ran),
\* the markers in the document match the plan computed from the current
\* metrics.
C4_SelfCorrecting ==
    ( /\ last.op = "debounced" /\ last.afterEdit /\ ~last.stale
      /\ mounted /\ editor # 0 /\ autoInsert )
    => /\ NumMarkers(doc) = Len(PlanOf(nodeHeights))
       /\ {PageNumbers(doc)[n] : n \in 1..NumMarkers(doc)}
             = {PlanOf(nodeHeights)[k].pageNumber : k \in 1..Len(PlanOf(nodeHeights))}

\* C5: a debounced pass whose plan has as many breaks as lastBreakCountRef
\* changes nothing: document, metrics and lastBreakCountRef stay as they are
\* and no further pass is scheduled.
C5_SameCountIsNoOp ==
    [][\A t \in timers :
          ( /\ t.remaining = 0
            /\ last'.op = "debounced"
            /\ Len(PlanOf(t.nodeHeights)) = lastBreakCountRef )
          => /\ doc' = doc
             /\ lastBreakCountRef' = lastBreakCountRef
             /\ nodeHeights' = nodeHeights
             /\ timers' = timers \ {t}]_vars

C5_Witness ==
    /\ last.op = "debounced"
    /\ ~last.rewrote
    /\ lastBreakCountRef >= 1
    /\ NumMarkers(doc) = lastBreakCountRef

\* C6: in the debounced pass and in recalculate alike, an insertion that
\* fails is skipped: every planned marker is still attempted and no error
\* leaves the pass.
C6_InsertFailureIsolated ==
    [][ /\ \A t \in timers :
             (t.remaining = 0 /\ last'.op = "debounced" /\ last'.rewrote /\ ~last'.stale)
             => (~last'.escaped /\ last'.attempted = Len(PlanOf(t.nodeHeights)))
        /\ (last'.op = "recalculate" /\ last'.rewrote)
             => (~last'.escaped /\ last'.attempted = Len(PlanOf(nodeHeights)))]_vars

\* C7: at most one debounced pass is pending; it holds the node heights of
\* the most recent metrics update, and it cannot fire before debounceMs have
\* passed since that update.
C7_TrailingDebounce ==
    /\ Cardinality(timers) <= 1
    /\ \A t \in timers :
          /\ t.nodeHeights = nodeHeights
          /\ t.remaining + quiet >= debounceMs

C7_Witness ==
    /\ last.op = "event"
    /\ last.measured
    /\ last.cancelled
    /\ \E t \in timers : t.remaining = debounceMs /\ t.afterEdit

\* C8: a pass that was pending at teardown, or when the editor became null or
\* another instance, or when autoInsert was switched off, never runs; after
\* teardown no measurement callback runs and none is pending.
C8_NothingRunsAfterTeardown ==
    /\ ~last.stale
    /\ ~mounted => (~last.measured /\ measureTimers = {} /\ listeners = {})

C8_Witness ==
    /\ ~mounted
    /\ last.cancelled
    /\ editor # 0

\* C9: recalculate leaves no timer that was pending before it and performs
\* the remove-all / insert-all pass from the current metrics whatever
\* lastBreakCountRef is: every planned marker is attempted, and afterwards
\* the document holds one marker for each insertion that did not fail.
C9_RecalculateForcesPass ==
    [][(last'.op = "recalculate" /\ editor # 0)
       => /\ \A t \in timers' :
                t.remaining = debounceMs /\ t.nodeHeights = nodeHeights'
          /\ last'.rewrote
          /\ last'.attempted = Len(PlanOf(nodeHeights))
          /\ NumMarkers(doc') = Len(PlanOf(nodeHeights)) - last'.failed]_vars

\* C10: removeAllPageBreaks leaves no marker, keeps every other node in its
\* order, changes nothing in a document without markers, and applied a
\* second time gives the document of the first application.
C10_RemoveAllLeavesContent ==
    /\ last.op \in {"removed", "removedTwice"}
          => (NumMarkers(doc) = 0 /\ doc = Content(removeIn))
    /\ (last.op = "removed" /\ NumMarkers(removeIn) = 0) => doc = removeIn
    /\ last.op = "removedTwice" => doc = removeOnce

C10_Witness ==
    /\ last.op = "removedTwice"
    /\ NumMarkers(removeIn) >= 2
    /\ Len(Content(removeIn)) >= 1
    /\ IsBreak(removeIn[1])

\* C11 (as stated): the number of breaks is floor(contentHeight / pageHeight),
\* contentHeight being the bottom edge of the last measured node.
C11_CountIsFloor ==
    last.op = "planned" =>
        Len(plannerOut) = LastBottom(plannerIn.nodes) \div plannerIn.pageHeight

\* C11 (amended): the number of breaks is the number of page boundaries lying
\* strictly above the bottom edge of the last measured node, that is
\* ceil(contentHeight / pageHeight) - 1 for contentHeight > 0 and 0 for
\* contentHeight = 0; it is floor(contentHeight / pageHeight) unless
\* contentHeight is a positive multiple of pageHeight, where it is one less.
C11_CountIsCeilMinusOne ==
    last.op = "planned" =>
        LET B == LastBottom(plannerIn.nodes)
            ph == plannerIn.pageHeight
        IN  /\ Len(plannerOut) = IF B = 0 THEN 0 ELSE (B - 1) \div ph
            /\ Len(plannerOut) = IF B > 0 /\ B % ph = 0 THEN (B \div ph) - 1
                                  ELSE B \div ph

C11_Witness ==
    /\ last.op = "planned"
    /\ LastBottom(plannerIn.nodes) = 3 * plannerIn.pageHeight
    /\ Len(plannerOut) = 2
    /\ \E i \in 1..Len(plannerIn.nodes) : plannerIn.nodes[i].height > plannerIn.pageHeight

\* C12: consecutive breaks of a plan computed from records in strictly
\* increasing document position have strictly increasing pageNumber and
\* non-decreasing insertPos, also when one node crosses several page
\* boundaries.
C12_PlanOrdered ==
    last.op = "planned" =>
        \A k \in 1..(Len(plannerOut) - 1) :
            /\ plannerOut[k].pageNumber < plannerOut[k + 1].pageNumber
            /\ plannerOut[k].insertPos <= plannerOut[k + 1].insertPos

\* C16: afterNodeIndex of every break is a valid index into nodeHeights,
\* 0 <= afterNodeIndex < len(nodeHeights), and the break is inserted at or
\* after the start of the node it designates; also for a break caused by the
\* first node.
C16_AfterNodeIndexValid ==
    last.op = "planned" =>
        \A k \in 1..Len(plannerOut) :
            /\ 0 <= plannerOut[k].afterNodeIndex
            /\ plannerOut[k].afterNodeIndex < Len(plannerIn.nodes)
            /\ plannerIn.nodes[plannerOut[k].afterNodeIndex + 1].pos
                  <= plannerOut[k].insertPos


ContentIndex(d, i) ==
    CHOOSE p \in 1..Len(d) : ~IsBreak(d[p]) /\ Len(Content(SubSeq(d, 1, p))) = i

\* C14: every metrics snapshot holds no record of a marker, has its records
\* in strictly increasing document position and its tops cumulative from 0;
\* a measurement pass rebuilds the list from the current document alone: one
\* record for each node that is no marker, with that node's position and
\* rendered height.
C14_SnapshotWellFormed ==
    /\ \A i \in 1..Len(nodeHeights) :
          /\ nodeHeights[i].type # "pageBreak"
          /\ nodeHeights[i].top =
                IF i = 1 THEN 0
                ELSE nodeHeights[i - 1].top + nodeHeights[i - 1].height
          /\ i > 1 => nodeHeights[i - 1].pos < nodeHeights[i].pos
          /\ i > 1 => nodeHeights[i - 1].top <= nodeHeights[i].top
    /\ last.measured =>
          /\ Len(nodeHeights) = Len(Content(doc))
          /\ \A i \in 1..Len(nodeHeights) :
                /\ nodeHeights[i].height = offsetHeight(Content(doc)[i])
                /\ nodeHeights[i].pos = NodePos(doc, ContentIndex(doc, i))

C14_Witness ==
    /\ last.measured
    /\ last.op = "event"
    /\ edits >= 1
    /\ Len(nodeHeights) >= 2
    /\ IsBreak(doc[1])
    /\ NumMarkers(doc) >= 1

\* C20: whenever no pass is executing, lastBreakCountRef is the number of
\* markers in the document of the current editor.
C20_CountMatchesMarkers ==
    (mounted /\ editor # 0) => lastBreakCountRef = NumMarkers(doc)


\* The block nodes of the measured document that are no markers, in document
\* order.
MeasuredBlocks == SelectSeq(descendants(measureIn, 1, 0),
                            LAMBDA v : v.node.type # "pageBreak")

\* C17: a block node whose rendered element is unavailable does not abort
\* the measurement and counts as height 0: the snapshot holds one record for
\* every block node that is no marker, the record of a node without an
\* element has height 0, and the tops of the later records are the sums of
\* the heights before them.
C17_UnrenderedCountsAsZero ==
    last.op \in {"measured", "measuredTwice"} =>
        /\ Len(nodeHeights) = Len(MeasuredBlocks)
        /\ \A i \in 1..Len(nodeHeights) :
              /\ nodeHeights[i].pos = MeasuredBlocks[i].pos
              /\ ~MeasuredBlocks[i].node.rendered => nodeHeights[i].height = 0
              /\ nodeHeights[i].top =
                    IF i = 1 THEN 0
                    ELSE nodeHeights[i - 1].top + nodeHeights[i - 1].height

\* C18: in every snapshot the bottom edge of the last record is the total
\* rendered height of the top-level blocks, no height being counted twice,
\* also when blocks are nested in other blocks.
C18_NoHeightCountedTwice ==
    last.op \in {"measured", "measuredTwice"} =>
        LastBottom(nodeHeights) = SumHeights(measureIn, Len(measureIn))


\* C15: within one pass every removal comes before every insertion, the
\* removals go from the last marker to the first and the insertions from the
\* first planned break to the last; the steps of one pass are never mixed
\* with the steps of another pass: no timer can fire while a pass runs, and
\* the pass leaves the document that its remove-all / insert-all sequence
\* gives when run on its own.
C15_PassStepsOrdered ==
    /\ \A i, j \in 1..Len(passLog) :
          i < j =>
             /\ passLog[i].pass <= passLog[j].pass
             /\ passLog[i].pass = passLog[j].pass =>
                   /\ passLog[j].step # "start"
                   /\ ~(passLog[i].step = "insert" /\ passLog[j].step = "remove")
                   /\ (passLog[i].step = "remove" /\ passLog[j].step = "remove")
                         => passLog[i].at > passLog[j].at
                   /\ (passLog[i].step = "insert" /\ passLog[j].step = "insert")
                         => passLog[i].at < passLog[j].at
    /\ pc # "idle" => \A t \in timers : t.remaining > 0
    /\ (pc = "idle" /\ last.rewrote) =>
          doc = IF last.op = "debounced"
                THEN InsertCaught(removeAllPageBreaks(removeIn), plannerOut, 1, 0).doc
                ELSE InsertUncaught(removeAllPageBreaks(removeIn), plannerOut, 1).doc

C15_Witness ==
    /\ pc = "idle"
    /\ CurrentPass = 2
    /\ last.rewrote
    /\ \E i, j \in 1..Len(passLog) :
          /\ i < j
          /\ passLog[i].pass = 1 /\ passLog[j].pass = 1
          /\ passLog[i].step = "remove" /\ passLog[j].step = "remove"
    /\ \E i, j \in 1..Len(passLog) :
          /\ i < j
          /\ passLog[i].pass = 2 /\ passLog[j].pass = 2
          /\ passLog[i].step = "insert" /\ passLog[j].step = "insert"

\* --------------------------------- calculatePageBreaks, statement by statement
\* The call executed one loop iteration at a time, on every list of at most
\* MaxLoopNodes records with heights 0..MaxLoopHeight and tops 0..MaxLoopTop
\* (the tops need not be cumulative), and every page height 1..MaxLoopPage.
LoopRecords ==
    [type : {"paragraph"}, height : 0..MaxLoopHeight, top : 0..MaxLoopTop, pos : {0}]

LoopInputs == UNION {[1..n -> LoopRecords] : n \in 0..MaxLoopNodes}

LoopInit ==
    /\ IdleSystem
    /\ doc = << >>
    /\ last = NoOp("input")
    /\ \E nodes \in LoopInputs, ph \in 1..MaxLoopPage :
          plannerIn = [nodes |-> nodes, pageHeight |-> ph]
    /\ plannerOut = << >>
    /\ removeIn = << >>
    /\ removeOnce = << >>
    /\ measureIn = << >>

\* currentPageEnd += pageHeight, left out.
SamePageEnd(currentPageEnd, pageHeight) == currentPageEnd

\* currentPageEnd += pageHeight.
NextPageEnd(currentPageEnd, pageHeight) == currentPageEnd + pageHeight

\* The node the forEach callback is running for, and its bottom edge.
LoopNode == plannerIn.nodes[frame.index + 1]
LoopNodeBottom == LoopNode.top + LoopNode.height

LoopUnchanged ==
    UNCHANGED << mounted, editor, editorsMade, autoInsert, doc, listeners,
                 measureTimers, nodeHeights, timers, timeoutRef, lastBreakCountRef,
                 edits, quiet, plannerIn, removeIn, removeOnce,
                 measureIn, pc, passLog, passTodo >>

\* The call starts: breaks = [], currentPageEnd = pageHeight, pageNumber = 1.
LoopEnter ==
    /\ frame.at = "none"
    /\ last.op = "input"
    /\ frame' = [at |-> "forEach", index |-> 0,
                 currentPageEnd |-> plannerIn.pageHeight, pageNumber |-> 1,
                 breaks |-> << >>, visited |-> << >>]
    /\ last' = NoOp("planning")
    /\ UNCHANGED plannerOut
    /\ LoopUnchanged

\* The forEach callback is invoked for the next node and runs up to the test
\* of the while loop.
LoopVisit ==
    /\ frame.at = "forEach"
    /\ frame.index < Len(plannerIn.nodes)
    /\ IF LoopNodeBottom > frame.currentPageEnd
       THEN frame' = [frame EXCEPT
                !.at = "while",
                !.breaks = Append(@, [pageNumber |-> frame.pageNumber,
                                      position |-> frame.currentPageEnd,
                                      insertPos |-> LoopNode.pos,
                                      afterNodeIndex |-> frame.index - 1]),
                !.pageNumber = @ + 1,
                !.currentPageEnd = NextPageEnd(@, plannerIn.pageHeight),
                !.visited = Append(@, frame.index)]
       ELSE frame' = [frame EXCEPT !.index = @ + 1,
                                   !.visited = Append(@, frame.index)]
    /\ UNCHANGED << plannerOut, last >>
    /\ LoopUnchanged

\* One test of the while loop: one more iteration of its body, or the callback
\* returns and the forEach moves on.
LoopWhile ==
    /\ frame.at = "while"
    /\ IF LoopNodeBottom > frame.currentPageEnd
       THEN frame' = [frame EXCEPT
                !.breaks = Append(@, [pageNumber |-> frame.pageNumber,
                                      position |-> frame.currentPageEnd,
                                      insertPos |-> LoopNode.pos + LoopNode.height,
                                      afterNodeIndex |-> frame.index]),
                !.pageNumber = @ + 1,
                !.currentPageEnd = NextPageEnd(@, plannerIn.pageHeight)]
       ELSE frame' = [frame EXCEPT !.at = "forEach", !.index = @ + 1]
    /\ UNCHANGED << plannerOut, last >>
    /\ LoopUnchanged

\* The forEach is over: return breaks.
LoopReturn ==
    /\ frame.at = "forEach"
    /\ frame.index = Len(plannerIn.nodes)
    /\ frame' = [frame EXCEPT !.at = "returned"]
    /\ plannerOut' = frame.breaks
    /\ last' = NoOp("planned")
    /\ LoopUnchanged

LoopNext ==
    \/ LoopEnter
    \/ LoopVisit
    \/ LoopWhile
    \/ LoopReturn

\* A call that has started runs on: the function is synchronous.
LoopSpec == LoopInit /\ [][LoopNext]_vars /\ WF_vars(LoopNext)

\* ------------------------------------------------------------ quiescence
\* The system left to itself: an editor with a loaded document has just been
\* attached (both effects ran: listeners subscribed, the initial measurement
\* and the first debounce timer pending, the metrics still the zero snapshot),
\* and the user makes no edit from here on.  Only timers act.
QuietDocs == PassDocs

QuietInit ==
    /\ mounted = TRUE
    /\ editor = 1
    /\ editorsMade = 1
    /\ autoInsert = TRUE
    /\ doc \in QuietDocs
    /\ listeners = {1}
    /\ measureTimers = {[editor |-> 1, remaining |-> InitialMeasureMs]}
    /\ nodeHeights = << >>
    /\ timers = {[id |-> 1, editor |-> 1, nodeHeights |-> << >>,
                   remaining |-> debounceMs, stale |-> FALSE, afterEdit |-> FALSE]}
    /\ timeoutRef = 1
    /\ lastBreakCountRef = 0
    /\ edits = MaxEdits
    /\ quiet = 0
    /\ last = NoOp("event")
    /\ plannerIn = NoPlanner
    /\ plannerOut = << >>
    /\ removeIn = << >>
    /\ removeOnce = << >>
    /\ measureIn = << >>
    /\ pc = "idle"
    /\ passLog = << >>
    /\ passTodo = << >>
    /\ frame = NoFrame

\* A debounce timer is due and the document is within the bound of the run:
\* the enabling condition of the debounced pass below.
PassDue == Len(doc) <= MaxQuietLen /\ \E t \in timers : t.remaining = 0

QuietNext ==
    \/ \E d \in TickSteps : Tick(d)
    \/ \E m \in measureTimers : InitialMeasure(m)
    \/ \E t \in timers : Len(doc) <= MaxQuietLen /\ DebouncedPass(t)

\* The event loop: time advances while a timer is pending, and the callback of
\* a due timer runs.  The last conjunct is weak fairness of the debounced pass
\* with its enabling condition written out as PassDue.
QuietSpec ==
    /\ QuietInit
    /\ [][QuietNext]_vars
    /\ WF_vars(\E d \in TickSteps : Tick(d))
    /\ WF_vars(\E m \in measureTimers : InitialMeasure(m))
    /\ ([]<>(~PassDue)
          \/ []<><<\E t \in timers : Len(doc) <= MaxQuietLen /\ DebouncedPass(t)>>_vars)

Quiescent == timers = {} /\ measureTimers = {}

RECURSIVE LargestBottom(_, _)
LargestBottom(nh, n) ==
    IF n = 0 THEN 0 ELSE Max(LargestBottom(nh, n - 1), Bottom(nh, n))

CeilDiv(a, b) == (a + b - 1) \div b

\* C21: calculatePageBreaks terminates on every list with non-negative
\* heights and every pageHeight >= 1; the callback runs for every node once, in
\* order; and at no point are there more than ceil(B / pageHeight) breaks, B
\* being the largest bottom edge in the list.  What the call returns is the
\* list calculatePageBreaks denotes.
C21_TerminatesWithinBound ==
    /\ <>(frame.at = "returned")
    /\ [](frame.visited = [k \in 1..Len(frame.visited) |-> k - 1])
    /\ [](frame.at = "returned" => Len(frame.visited) = Len(plannerIn.nodes))
    /\ [](Len(frame.breaks) <=
            CeilDiv(LargestBottom(plannerIn.nodes, Len(plannerIn.nodes)),
                    plannerIn.pageHeight))
    /\ [](frame.at = "returned" =>
            plannerOut = calculatePageBreaks(plannerIn.nodes, plannerIn.pageHeight))

\* The call returned after a node taller than a page went through the while
\* loop and a later node was visited.
C21_Witness ==
    /\ frame.at = "returned"
    /\ Len(plannerIn.nodes) = MaxLoopNodes
    /\ Len(plannerOut) >= 2
    /\ \E k \in 1..Len(plannerOut) : plannerOut[k].afterNodeIndex = 0

====
